---- MODULE Spec2Model ----
(***************************************************************************)
(* A model of the steno solver (src/main.rs): the pattern compiler         *)
(* parse_steno_string, the per-ply evaluator check_steno_constraints, the  *)
(* fork-join enumeration enumerate_positions over rayon's par_iter, the    *)
(* Mutex<u32> accumulator, the standard-output lock, solve and main.       *)
(*                                                                         *)
(* The chess rules (the chess crate's Board, MoveGen, make_move, piece_on, *)
(* checkers, status) are a collaborator.  The model drives the search over *)
(* two small fixed move graphs: Stub, a constructed position whose first   *)
(* plies show en passant, castling, promotion, captures, check, mate and   *)
(* stalemate, and Shuffle, the game e2e4 followed by the knight shuffle    *)
(* g8f6 g1f3 f6g8 f3g1, which repeats and so allows games of any length.   *)
(***************************************************************************)
EXTENDS Integers, Sequences, FiniteSets, TLC

VARIABLES
    steno,              \* args[1], the raw pattern string (a sequence of characters)
    start,              \* the position Board::default() stands for in this run
    overflow_checks,    \* TRUE: the build panics on integer overflow; FALSE: it wraps
    phase,              \* where main / solve is
    steno_constraints,  \* the compiled pattern handed to solve
    calls,              \* the enumerate_positions calls that have not returned
    results,            \* the Mutex<u32>: {} before it is created, else one record
    stdout_lock,        \* the holder of io::stdout()'s lock: {} or {path}
    stdout,             \* the lines written to standard output, in order
    stderr,             \* the lines written to standard error, in order
    hits,               \* history: the paths that passed the frontier check (line 114)
    movegens,           \* history: the number of calls of MoveGen::new_legal
    started,            \* history: the number of calls that have begun to run
    previous            \* the standard output of the run before this one: {} or {lines}

vars == <<steno, start, overflow_checks, phase, steno_constraints, calls, results,
          stdout_lock, stdout, stderr, hits, movegens, started, previous>>

----------------------------------------------------------------------------
(* Bounds of the model *)

\* The longest pattern of the exhaustively enumerated short patterns.
MaxLen == 2

\* The number of nested calls at which the thread's stack is exhausted; only an
\* unbounded recursion reaches it.
MaxStack == 260

(* Program constants *)

\* depth is a u8 (line 109): its values are 0 .. U8Mod - 1.
U8Mod == 256

----------------------------------------------------------------------------
(* Option<T>: None is {}, Some(x) is {x} *)

None == {}

Some(x) == {x}

Unwrap(o) == CHOOSE x \in o : TRUE

----------------------------------------------------------------------------
(* The pattern compiler *)

\* An alphabet with one more digit than the evaluator knows.
valid_chars_wider ==
    << "~", "1", "2", "3", "4", "5", "6", "7", "8", "9", "a", "b", "c", "d", "e", "f",
       "g", "h", "x", "+", "#", "L", "N", "R", "Q", "K", "P", "%", "=", "o", "0", "r",
       "n", "l", "q" >>

\* valid_chars, in the order of the array (lines 11-14)
valid_chars ==
    << "~", "1", "2", "3", "4", "5", "6", "7", "8", "a", "b", "c", "d", "e", "f", "g",
       "h", "x", "+", "#", "L", "N", "R", "Q", "K", "P", "%", "=", "o", "0", "r", "n",
       "l", "q" >>

\* valid_chars.contains(&ch)
Contains(arr, ch) == \E i \in 1..Len(arr) : arr[i] = ch

\* Ok(parsed_chars) and Err(message)
Ok(parsed_chars) == [ok |-> TRUE, chars |-> parsed_chars, err |-> <<>>]

Err(message) == [ok |-> FALSE, chars |-> <<>>, err |-> message]

\* format!("Invalid character in steno string: {}", ch) (line 21)
InvalidCharacter(ch) == <<"Invalid character in steno string: ", ch>>

\* A parser that pushes every character, valid or not.
ParseCharLenient(ch) == Ok(<<ch>>)

\* One turn of the loop (lines 18-22) on the character ch: what it pushes, or
\* the error it returns.
ParseChar(ch) ==
    IF Contains(valid_chars, ch) THEN Ok(<<ch>>) ELSE Err(InvalidCharacter(ch))

RECURSIVE ParseRangeLastError(_, _, _)
\* A loop that goes on after an invalid character and returns the last error.
ParseRangeLastError(s, lo, hi) ==
    IF lo > hi THEN Ok(<<>>)
    ELSE IF lo = hi THEN ParseChar(s[lo])
    ELSE LET mid == (lo + hi) \div 2
             left == ParseRangeLastError(s, lo, mid)
             right == ParseRangeLastError(s, mid + 1, hi)
         IN  IF ~right.ok THEN right
             ELSE IF ~left.ok THEN left ELSE Ok(left.chars \o right.chars)

RECURSIVE ParseRange(_, _, _)
\* The loop of lines 17-23 over the characters lo..hi of s, run by halves (the
\* recursion of a left-to-right run is too deep for patterns of 256 characters):
\* the first half's error ends the loop, else the second half's, else the
\* characters pushed by the first half are followed by the second's.
ParseRange(s, lo, hi) ==
    IF lo > hi THEN Ok(<<>>)
    ELSE IF lo = hi THEN ParseChar(s[lo])
    ELSE LET mid == (lo + hi) \div 2
             left == ParseRange(s, lo, mid)
         IN  IF ~left.ok THEN left
             ELSE LET right == ParseRange(s, mid + 1, hi)
                  IN  IF ~right.ok THEN right ELSE Ok(left.chars \o right.chars)

parse_steno_string(s) == ParseRange(s, 1, Len(s))

----------------------------------------------------------------------------
(* The chess collaborator: squares, moves and the two move graphs *)

\* Square index = rank index * 8 + file index (a1 = 0, h8 = 63).
SquareE1 == 4
SquareG1 == 6
SquareC1 == 2
SquareE8 == 60
SquareG8 == 62
SquareC8 == 58

GetRank(sq) == sq \div 8

GetFile(sq) == sq % 8

\* A ChessMove: source, destination, promotion (an Option).
Mv(s, d, p) == [source |-> s, dest |-> d, promotion |-> p]

\* The positions.  pieces maps the occupied squares to the kind of the piece,
\* checkers is the number of pieces giving check to the side to move, next maps
\* each legal move to the position it leads to.
Boards ==
    \* Shuffle: e2e4, then the knights shuffle g8f6 g1f3 f6g8 f3g1 for ever
    (0 :> [pieces |-> (4 :> "King" @@ 60 :> "King" @@ 6 :> "Knight" @@ 62 :> "Knight" @@
                       12 :> "Pawn"),
           checkers |-> 0,
           next |-> (Mv(12, 28, None) :> 1)]) @@
    (1 :> [pieces |-> (4 :> "King" @@ 60 :> "King" @@ 6 :> "Knight" @@ 62 :> "Knight" @@
                       28 :> "Pawn"),
           checkers |-> 0,
           next |-> (Mv(62, 45, None) :> 2)]) @@
    (2 :> [pieces |-> (4 :> "King" @@ 60 :> "King" @@ 6 :> "Knight" @@ 45 :> "Knight" @@
                       28 :> "Pawn"),
           checkers |-> 0,
           next |-> (Mv(6, 21, None) :> 3)]) @@
    (3 :> [pieces |-> (4 :> "King" @@ 60 :> "King" @@ 21 :> "Knight" @@ 45 :> "Knight" @@
                       28 :> "Pawn"),
           checkers |-> 0,
           next |-> (Mv(45, 62, None) :> 4)]) @@
    (4 :> [pieces |-> (4 :> "King" @@ 60 :> "King" @@ 21 :> "Knight" @@ 62 :> "Knight" @@
                       28 :> "Pawn"),
           checkers |-> 0,
           next |-> (Mv(21, 6, None) :> 1)]) @@
    \* Stub: white Ke1 Rh1 Pe5 Pb7, black Ke7 Ra8 Pd5 (just played d7d5)
    (10 :> [pieces |-> (4 :> "King" @@ 7 :> "Rook" @@ 36 :> "Pawn" @@ 49 :> "Pawn" @@
                        52 :> "King" @@ 56 :> "Rook" @@ 35 :> "Pawn"),
            checkers |-> 0,
            next |-> (Mv(36, 43, None) :> 11 @@          \* e5xd6 en passant, check
                      Mv(4, 6, None) :> 12 @@            \* O-O
                      Mv(49, 56, Some("Queen")) :> 13)]) @@  \* b7xa8=Q mate
    (11 :> [pieces |-> (4 :> "King" @@ 7 :> "Rook" @@ 43 :> "Pawn" @@ 49 :> "Pawn" @@
                        52 :> "King" @@ 56 :> "Rook"),
            checkers |-> 1,
            next |-> (Mv(52, 43, None) :> 15 @@          \* Ke7xd6
                      Mv(52, 44, None) :> 14)]) @@       \* Ke7-e6
    (12 :> [pieces |-> (6 :> "King" @@ 5 :> "Rook" @@ 36 :> "Pawn" @@ 49 :> "Pawn" @@
                        52 :> "King" @@ 56 :> "Rook" @@ 35 :> "Pawn"),
            checkers |-> 0,
            next |-> (Mv(35, 27, None) :> 16)]) @@       \* d5-d4
    (13 :> [pieces |-> (4 :> "King" @@ 7 :> "Rook" @@ 36 :> "Pawn" @@ 56 :> "Queen" @@
                        52 :> "King" @@ 35 :> "Pawn"),
            checkers |-> 1,
            next |-> <<>>]) @@                           \* mate: no legal move
    (14 :> [pieces |-> (4 :> "King" @@ 7 :> "Rook" @@ 43 :> "Pawn" @@ 49 :> "Pawn" @@
                        44 :> "King" @@ 56 :> "Rook"),
            checkers |-> 0,
            next |-> (Mv(7, 47, None) :> 17)]) @@        \* Rh1-h6 mate
    (15 :> [pieces |-> (4 :> "King" @@ 7 :> "Rook" @@ 49 :> "Pawn" @@
                        43 :> "King" @@ 56 :> "Rook"),
            checkers |-> 0,
            next |-> <<>>]) @@                           \* stalemate: no legal move
    (16 :> [pieces |-> (6 :> "King" @@ 5 :> "Rook" @@ 36 :> "Pawn" @@ 49 :> "Pawn" @@
                        52 :> "King" @@ 56 :> "Rook" @@ 27 :> "Pawn"),
            checkers |-> 0,
            next |-> (Mv(6, 7, None) :> 18)]) @@         \* Kg1-h1
    (17 :> [pieces |-> (4 :> "King" @@ 47 :> "Rook" @@ 43 :> "Pawn" @@ 49 :> "Pawn" @@
                        44 :> "King" @@ 56 :> "Rook"),
            checkers |-> 1,
            next |-> <<>>]) @@
    (18 :> [pieces |-> (7 :> "King" @@ 5 :> "Rook" @@ 36 :> "Pawn" @@ 49 :> "Pawn" @@
                        52 :> "King" @@ 56 :> "Rook" @@ 27 :> "Pawn"),
            checkers |-> 0,
            next |-> <<>>])

ShuffleStart == 0

StubStart == 10

\* MoveGen::new_legal(&board).collect()
LegalMoves(board) == DOMAIN Boards[board].next

\* board.make_move(mov, &mut new_board)
MakeMove(board, mov) == Boards[board].next[mov]

\* board.piece_on(sq)
PieceOn(board, sq) ==
    IF sq \in DOMAIN Boards[board].pieces THEN Some(Boards[board].pieces[sq]) ELSE None

\* board.checkers().count()
CheckersCount(board) == Boards[board].checkers

\* board.status()
BoardStatus(board) ==
    IF LegalMoves(board) # {} THEN "Ongoing"
    ELSE IF CheckersCount(board) > 0 THEN "Checkmate" ELSE "Stalemate"

----------------------------------------------------------------------------
(* The constraint evaluator *)

\* The characters an input may hold: the alphabet and two characters outside it.
InputChars == {valid_chars[i] : i \in 1..Len(valid_chars)} \cup {"9", "z"}

\* The code point of a character (char as usize, to_digit).
CharCode ==
    [ch \in InputChars |->
        CASE ch = "#" -> 35 [] ch = "%" -> 37 [] ch = "+" -> 43 [] ch = "0" -> 48
          [] ch = "1" -> 49 [] ch = "2" -> 50 [] ch = "3" -> 51 [] ch = "4" -> 52
          [] ch = "5" -> 53 [] ch = "6" -> 54 [] ch = "7" -> 55 [] ch = "8" -> 56
          [] ch = "9" -> 57 [] ch = "=" -> 61 [] ch = "K" -> 75 [] ch = "L" -> 76
          [] ch = "N" -> 78 [] ch = "P" -> 80 [] ch = "Q" -> 81 [] ch = "R" -> 82
          [] ch = "a" -> 97 [] ch = "b" -> 98 [] ch = "c" -> 99 [] ch = "d" -> 100
          [] ch = "e" -> 101 [] ch = "f" -> 102 [] ch = "g" -> 103 [] ch = "h" -> 104
          [] ch = "l" -> 108 [] ch = "n" -> 110 [] ch = "o" -> 111 [] ch = "q" -> 113
          [] ch = "r" -> 114 [] ch = "x" -> 120 [] ch = "z" -> 122 [] ch = "~" -> 126]

\* (depth - 1) as usize on a u8 (line 33), in a build that wraps.
ConstraintIndex(depth) == (depth - 1) % U8Mod

\* The match arms that unwrap last_piece_moved (lines 43-48, 80, 85).
UnwrapsPiece(constraint) == constraint \in {"L", "N", "R", "Q", "K", "P", "o", "0"}

\* Whether check_steno_constraints panics: depth - 1 overflows in a checked
\* build, the index is out of the slice's bounds, or an absent piece is unwrapped.
CheckPanics(board, last_move, last_piece_moved, piece_on_dest, depth, constraints) ==
    /\ last_move # None
    /\ \/ depth = 0 /\ overflow_checks
       \/ ConstraintIndex(depth) >= Len(constraints)
       \/ /\ ConstraintIndex(depth) < Len(constraints)
          /\ UnwrapsPiece(constraints[ConstraintIndex(depth) + 1])
          /\ last_piece_moved = None

\* An en-passant test that does not look at the destination square.
DiagonalPawn(source_square, dest_square, last_piece_moved, piece_on_dest) ==
    /\ last_piece_moved = Some("Pawn")
    /\ GetFile(source_square) # GetFile(dest_square)

\* The en-passant test shared by the arms 'x' and '%' (lines 53-63, 66-76).
DiagonalPawnToEmpty(source_square, dest_square, last_piece_moved, piece_on_dest) ==
    /\ last_piece_moved = Some("Pawn")
    /\ GetFile(source_square) # GetFile(dest_square)
    /\ piece_on_dest = None

\* An arm 'x' without the en-passant case.
IsCaptureOccupiedOnly(source_square, dest_square, last_piece_moved, piece_on_dest) ==
    piece_on_dest # None

\* The arm 'x' (lines 49-64).
IsCapture(source_square, dest_square, last_piece_moved, piece_on_dest) ==
    IF piece_on_dest # None THEN TRUE
    ELSE DiagonalPawnToEmpty(source_square, dest_square, last_piece_moved, piece_on_dest)

\* The arm of the match (lines 37-106) that a constraint selects, by the
\* pattern it is the first to fit; "default" is the arm _ of line 105.
MatchArm(constraint) ==
    LET code == CharCode[constraint]
    IN  CASE constraint = "~" -> "wildcard"
          [] code >= CharCode["1"] /\ code <= CharCode["8"] -> "rank"
          [] code >= CharCode["a"] /\ code <= CharCode["h"] -> "file"
          [] constraint = "+" -> "check"
          [] constraint = "#" -> "checkmate"
          [] constraint \in {"L", "N", "R", "Q", "K", "P"} -> "piece"
          [] constraint = "x" -> "capture"
          [] constraint = "%" -> "en passant"
          [] constraint = "=" -> "stalemate"
          [] constraint \in {"o", "0"} -> "castling"
          [] constraint \in {"r", "n", "l", "q"} -> "promotion"
          [] OTHER -> "default"

\* A wildcard arm that rejects every move.
ArmWildcardNever == FALSE

\* The arm '~' (line 38).
ArmWildcard == TRUE

\* The match on the constraint (lines 37-106).
MatchConstraint(constraint, board, mov, last_piece_moved, piece_on_dest) ==
    LET dest_square == mov.dest
        source_square == mov.source
        code == CharCode[constraint]
    IN  CASE constraint = "~" -> ArmWildcard
          [] code >= CharCode["1"] /\ code <= CharCode["8"] ->
                GetRank(dest_square) = (code - CharCode["0"]) - 1
          [] code >= CharCode["a"] /\ code <= CharCode["h"] ->
                GetFile(dest_square) = code - CharCode["a"]
          [] constraint = "+" -> CheckersCount(board) > 0
          [] constraint = "#" -> BoardStatus(board) = "Checkmate"
          [] constraint = "L" -> Unwrap(last_piece_moved) = "Bishop"
          [] constraint = "N" -> Unwrap(last_piece_moved) = "Knight"
          [] constraint = "R" -> Unwrap(last_piece_moved) = "Rook"
          [] constraint = "Q" -> Unwrap(last_piece_moved) = "Queen"
          [] constraint = "K" -> Unwrap(last_piece_moved) = "King"
          [] constraint = "P" -> Unwrap(last_piece_moved) = "Pawn"
          [] constraint = "x" ->
                IsCapture(source_square, dest_square, last_piece_moved, piece_on_dest)
          [] constraint = "%" ->
                DiagonalPawnToEmpty(source_square, dest_square, last_piece_moved,
                                    piece_on_dest)
          [] constraint = "=" -> BoardStatus(board) = "Stalemate"
          [] constraint = "o" ->
                /\ Unwrap(last_piece_moved) = "King"
                /\ \/ source_square = SquareE1 /\ dest_square = SquareG1
                   \/ source_square = SquareE8 /\ dest_square = SquareG8
          [] constraint = "0" ->
                /\ Unwrap(last_piece_moved) = "King"
                /\ \/ source_square = SquareE1 /\ dest_square = SquareC1
                   \/ source_square = SquareE8 /\ dest_square = SquareC8
          [] constraint = "r" -> mov.promotion = Some("Rook")
          [] constraint = "n" -> mov.promotion = Some("Knight")
          [] constraint = "l" -> mov.promotion = Some("Bishop")
          [] constraint = "q" -> mov.promotion = Some("Queen")
          [] OTHER -> FALSE

\* A gate that lets every move pass.
GateAlwaysPasses(board, last_move, last_piece_moved, piece_on_dest, depth, constraints) == TRUE

\* check_steno_constraints where it does not panic (lines 28-107).
check_steno_constraints(board, last_move, last_piece_moved, piece_on_dest, depth, constraints) ==
    IF last_move = None THEN TRUE
    ELSE MatchConstraint(constraints[ConstraintIndex(depth) + 1], board,
                         Unwrap(last_move), last_piece_moved, piece_on_dest)

----------------------------------------------------------------------------
(* The inputs *)

RECURSIVE SeqsUpTo(_, _)
\* The sequences over S of length at most n.
SeqsUpTo(S, n) ==
    IF n = 0 THEN {<<>>}
    ELSE LET shorter == SeqsUpTo(S, n - 1)
         IN  shorter \cup {Append(s, ch) : s \in {t \in shorter : Len(t) = n - 1}, ch \in S}

\* Every string over InputChars of at most MaxLen characters.
ShortInputs == SeqsUpTo(InputChars, MaxLen)

\* n wildcards
Wildcards(n) == [i \in 1..n |-> "~"]

\* The patterns around the range of the u8 depth counter: the all-wildcard
\* patterns of 255 and 256 characters, and a pawn move followed by 256 wildcards.
LongInputs == {Wildcards(U8Mod - 1), Wildcards(U8Mod), <<"P">> \o Wildcards(U8Mod)}

----------------------------------------------------------------------------
(* The state of the search *)

\* The arguments and the position of one enumerate_positions call (line 109);
\* tmp is the value read from the accumulator by the increment of line 116,
\* pending the number of closures of its for_each that have not finished, and
\* failed whether one of them panicked.
Call(board, depth, path, last_move, last_piece_moved, piece_on_dest) ==
    [board |-> board, depth |-> depth, path |-> path, last_move |-> last_move,
     last_piece_moved |-> last_piece_moved, piece_on_dest |-> piece_on_dest,
     pc |-> "call", tmp |-> 0, pending |-> 0, failed |-> FALSE]

\* The call solve makes (line 153).
RootCall == Call(start, 0, <<>>, None, None, None)

\* depth + 1 on a u8 (line 146), in a build that wraps.
NextDepth(depth) == (depth + 1) % U8Mod

\* A closure that reads the two pieces from the board after the move.
ChildCallAfterMove(c, mov) ==
    Call(MakeMove(c.board, mov), NextDepth(c.depth), Append(c.path, mov), Some(mov),
         PieceOn(MakeMove(c.board, mov), mov.source), PieceOn(MakeMove(c.board, mov), mov.dest))

\* The body of the par_iter closure for one move (lines 139-146): the child call.
ChildCall(c, mov) ==
    Call(MakeMove(c.board, mov), NextDepth(c.depth), Append(c.path, mov), Some(mov),
         PieceOn(c.board, mov.source), PieceOn(c.board, mov.dest))

\* Whether d is a call made by c's fan-out.
IsChildOf(d, c) ==
    /\ Len(d.path) = Len(c.path) + 1
    /\ SubSeq(d.path, 1, Len(c.path)) = c.path

\* The holders of a lock: a call, named by its path, or solve.
CallHolder(c) == [by |-> "call", path |-> c.path]

SolveHolder == [by |-> "solve", path |-> <<>>]

\* Mutex::new(0) (line 152)
NewMutex == [value |-> 0, holder |-> None]

\* An end of a call that its parent's for_each always takes for a panic.
FinishedAsPanic(c, panic) ==
    LET parents == {p \in calls : IsChildOf(c, p)}
    IN  (calls \ ({c} \cup parents)) \cup
        {[p EXCEPT !.pending = @ - 1, !.failed = TRUE] : p \in parents}

\* The calls once c has ended, by a return or (panic) by a panic: the closure
\* that made the call has finished, which its parent's for_each is told.
Finished(c, panic) ==
    LET parents == {p \in calls : IsChildOf(c, p)}
    IN  (calls \ ({c} \cup parents)) \cup
        {[p EXCEPT !.pending = @ - 1, !.failed = @ \/ panic] : p \in parents}

\* A search that counts as returned when any call returns.
PhaseAfterAnyEnd(c, panic) == IF panic THEN "panicked" ELSE "joined"

\* Where main is once the call c has ended: the root's return ends the search,
\* and a panic that unwinds out of the root unwinds solve and main.
PhaseAfterEnd(c, panic) ==
    IF c.path # <<>> THEN phase ELSE IF panic THEN "panicked" ELSE "joined"

\* San::from_move(&position, &uci_move).to_string() (lines 121-124): the piece, its
\* source and destination, and the promotion.
SanOf(position, mov) ==
    <<Unwrap(PieceOn(position, mov.source)), mov.source, mov.dest, mov.promotion>>

RECURSIVE Play(_, _, _, _)
\* position.play(..) over the moves lo..hi of path (line 125), run by halves.
Play(position, path, lo, hi) ==
    IF lo > hi THEN position
    ELSE IF lo = hi THEN MakeMove(position, path[lo])
    ELSE LET mid == (lo + hi) \div 2
             reached == Play(position, path, lo, mid)
         IN  IF reached \in DOMAIN Boards THEN Play(reached, path, mid + 1, hi) ELSE reached

\* The loop of lines 119-126: each move in the notation of the position it is
\* played in, from Chess::default() on.
SanMoves(path) == [i \in 1..Len(path) |-> SanOf(Play(start, path, 1, i - 1), path[i])]

\* The line written for a match (lines 118-132); path records the moves it stands for.
UrlLine(path) == [kind |-> "url", moves |-> SanMoves(path), path |-> path, count |-> 0]

\* The line solve prints (line 156).
CountLine(n) == [kind |-> "count", moves |-> <<>>, path |-> <<>>, count |-> n]

----------------------------------------------------------------------------
(* Initial states *)

Init ==
    /\ \/ steno \in ShortInputs /\ start \in {ShuffleStart, StubStart}
       \/ steno \in LongInputs /\ start = ShuffleStart
    /\ overflow_checks \in BOOLEAN
    /\ phase = "main"
    /\ steno_constraints = <<>>
    /\ calls = {}
    /\ results = None
    /\ stdout_lock = None
    /\ stdout = <<>>
    /\ stderr = <<>>
    /\ hits = {}
    /\ movegens = 0
    /\ started = 0
    /\ previous = None

----------------------------------------------------------------------------
(* main and solve *)

\* The accumulator, once solve has created it.
Mutex == Unwrap(results)

\* main, lines 167-170: compile the pattern; solve on Ok, report on Err.
MainParse ==
    /\ phase = "main"
    /\ LET r == parse_steno_string(steno)
       IN  IF r.ok
           THEN /\ steno_constraints' = r.chars
                /\ phase' = "solve"
                /\ UNCHANGED stderr
           ELSE /\ stderr' = Append(stderr, r.err)
                /\ phase' = "rejected"
                /\ UNCHANGED steno_constraints
    /\ UNCHANGED <<steno, start, overflow_checks, calls, results, stdout_lock, stdout,
                   hits, movegens, started, previous>>

\* solve, lines 151-153: create the accumulator and call enumerate_positions.
SolveStart ==
    /\ phase = "solve"
    /\ results' = Some(NewMutex)
    /\ calls' = {RootCall}
    /\ phase' = "search"
    /\ UNCHANGED <<steno, start, overflow_checks, steno_constraints, stdout_lock, stdout,
                   stderr, hits, movegens, started, previous>>

\* A mutex that never makes a thread wait.
CanLockAlways(m) == TRUE

\* Mutex::lock blocks while another thread holds the mutex.  Standard output
\* takes every line written here, so no thread panics while it holds the guard:
\* the mutex is never poisoned and unwrap succeeds.
CanLock(m) == m.holder = None

\* solve, line 155: results.lock().unwrap() after the search has returned.
SolveLock ==
    /\ phase = "joined"
    /\ CanLock(Mutex)
    /\ results' = Some([Mutex EXCEPT !.holder = Some(SolveHolder)])
    /\ phase' = "locked"
    /\ UNCHANGED <<steno, start, overflow_checks, steno_constraints, calls, stdout_lock,
                   stdout, stderr, hits, movegens, started, previous>>

\* solve, lines 156-157: print the count, drop the guard.
SolvePrint ==
    /\ phase = "locked"
    /\ stdout_lock = None
    /\ stdout' = Append(stdout, CountLine(Mutex.value))
    /\ results' = Some([Mutex EXCEPT !.holder = None])
    /\ phase' = "done"
    /\ UNCHANGED <<steno, start, overflow_checks, steno_constraints, calls, stdout_lock,
                   stderr, hits, movegens, started, previous>>

----------------------------------------------------------------------------
(* enumerate_positions *)

\* The calls with c moved to the position pc.
At(c, pc) == (calls \ {c}) \cup {[c EXCEPT !.pc = pc]}

\* Lines 110-112: the constraint gate.
Gate(c) ==
    /\ phase = "search"
    /\ c.pc = "call"
    /\ Len(c.path) < MaxStack
    /\ started' = started + 1
    /\ IF CheckPanics(c.board, c.last_move, c.last_piece_moved, c.piece_on_dest,
                      c.depth, steno_constraints)
       THEN calls' = Finished(c, TRUE) /\ phase' = PhaseAfterEnd(c, TRUE)
       ELSE IF ~check_steno_constraints(c.board, c.last_move, c.last_piece_moved,
                                        c.piece_on_dest, c.depth, steno_constraints)
            THEN calls' = Finished(c, FALSE) /\ phase' = PhaseAfterEnd(c, FALSE)
            ELSE calls' = At(c, "frontier") /\ UNCHANGED phase
    /\ UNCHANGED <<steno, start, overflow_checks, steno_constraints, results,
                   stdout_lock, stdout, stderr, hits, movegens, previous>>

\* The recursion has no end and the stack is exhausted: the process is killed.
StackOverflow(c) ==
    /\ phase = "search"
    /\ c.pc = "call"
    /\ Len(c.path) >= MaxStack
    /\ phase' = "aborted"
    /\ UNCHANGED <<steno, start, overflow_checks, steno_constraints, calls, results,
                   stdout_lock, stdout, stderr, hits, movegens, started, previous>>

\* A frontier one ply beyond the pattern.
AtFrontierOffByOne(depth, constraints) == depth = Len(constraints) + 1

\* Line 114: depth as usize == steno_constraints.len()
AtFrontier(depth, constraints) == depth = Len(constraints)

\* Line 114: the frontier check.
FrontierCheck(c) ==
    /\ phase = "search"
    /\ c.pc = "frontier"
    /\ IF AtFrontier(c.depth, steno_constraints)
       THEN calls' = At(c, "lock") /\ hits' = hits \cup {c.path}
       ELSE calls' = At(c, "expand") /\ UNCHANGED hits
    /\ UNCHANGED <<steno, start, overflow_checks, phase, steno_constraints, results,
                   stdout_lock, stdout, stderr, movegens, started, previous>>

\* Whether depth + 1 (line 146) panics: it overflows the u8 and the build
\* checks overflows.
DepthOverflowPanics(depth) == depth + 1 >= U8Mod /\ overflow_checks

\* Lines 136-147: generate the legal moves and hand one closure per move to
\* rayon's for_each.  Where depth + 1 panics, every closure panics before it
\* calls enumerate_positions, and for_each resumes the panic in this call.
Expand(c) ==
    /\ phase = "search"
    /\ c.pc = "expand"
    /\ movegens' = movegens + 1
    /\ LET moves == LegalMoves(c.board)
       IN  IF moves # {} /\ DepthOverflowPanics(c.depth)
           THEN calls' = Finished(c, TRUE) /\ phase' = PhaseAfterEnd(c, TRUE)
           ELSE /\ calls' = (calls \ {c})
                              \cup {[c EXCEPT !.pc = "join", !.pending = Cardinality(moves)]}
                              \cup {ChildCall(c, mov) : mov \in moves}
                /\ UNCHANGED phase
    /\ UNCHANGED <<steno, start, overflow_checks, steno_constraints, results,
                   stdout_lock, stdout, stderr, hits, started, previous>>

\* A for_each that returns without waiting for its closures.
JoinNoWait(c) == TRUE

\* for_each returns once every closure it ran has finished.
JoinReady(c) == c.pending = 0

\* Lines 147-148: for_each returns, or resumes a closure's panic, and the call ends.
Join(c) ==
    /\ phase = "search"
    /\ c.pc = "join"
    /\ JoinReady(c)
    /\ calls' = Finished(c, c.failed)
    /\ phase' = PhaseAfterEnd(c, c.failed)
    /\ UNCHANGED <<steno, start, overflow_checks, steno_constraints, results,
                   stdout_lock, stdout, stderr, hits, movegens, started, previous>>

\* Line 115: results.lock().unwrap()
Lock(c) ==
    /\ phase = "search"
    /\ c.pc = "lock"
    /\ CanLock(Mutex)
    /\ results' = Some([Mutex EXCEPT !.holder = Some(CallHolder(c))])
    /\ calls' = At(c, "load")
    /\ UNCHANGED <<steno, start, overflow_checks, phase, steno_constraints,
                   stdout_lock, stdout, stderr, hits, movegens, started, previous>>

\* Line 116, the read of *num_results += 1.
Load(c) ==
    /\ phase = "search"
    /\ c.pc = "load"
    /\ calls' = (calls \ {c}) \cup {[c EXCEPT !.pc = "store", !.tmp = Mutex.value]}
    /\ UNCHANGED <<steno, start, overflow_checks, phase, steno_constraints, results,
                   stdout_lock, stdout, stderr, hits, movegens, started, previous>>

\* Line 116, the write of *num_results += 1.  The counter is a u32; the searches
\* of this model record far fewer than 2^32 matches, so the sum is the integer's.
Store(c) ==
    /\ phase = "search"
    /\ c.pc = "store"
    /\ results' = Some([Mutex EXCEPT !.value = c.tmp + 1])
    /\ calls' = At(c, "stdout")
    /\ UNCHANGED <<steno, start, overflow_checks, phase, steno_constraints,
                   stdout_lock, stdout, stderr, hits, movegens, started, previous>>

\* Lines 118-131: build the URL, then stdout.lock().
StdoutLock(c) ==
    /\ phase = "search"
    /\ c.pc = "stdout"
    /\ stdout_lock = None
    /\ stdout_lock' = Some(CallHolder(c))
    /\ calls' = At(c, "write")
    /\ UNCHANGED <<steno, start, overflow_checks, phase, steno_constraints, results,
                   stdout, stderr, hits, movegens, started, previous>>

\* Line 132: writeln!(handle, "{}", lichess_url)
Write(c) ==
    /\ phase = "search"
    /\ c.pc = "write"
    /\ stdout' = Append(stdout, UrlLine(c.path))
    /\ calls' = At(c, "return")
    /\ UNCHANGED <<steno, start, overflow_checks, phase, steno_constraints, results,
                   stdout_lock, stderr, hits, movegens, started, previous>>

\* A guard whose drop leaves the mutex held.
UnlockedLeak(m) == m

\* The mutex once its guard is dropped.
Unlocked(m) == [m EXCEPT !.holder = None]

\* Line 133: return, dropping the stdout handle and the mutex guard.
Return(c) ==
    /\ phase = "search"
    /\ c.pc = "return"
    /\ stdout_lock' = None
    /\ results' = Some(Unlocked(Mutex))
    /\ calls' = Finished(c, FALSE)
    /\ phase' = PhaseAfterEnd(c, FALSE)
    /\ UNCHANGED <<steno, start, overflow_checks, steno_constraints, stdout, stderr,
                   hits, movegens, started, previous>>

----------------------------------------------------------------------------
(* The specification *)

Next ==
    \/ MainParse
    \/ SolveStart
    \/ SolveLock
    \/ SolvePrint
    \/ \E c \in calls : Gate(c)
    \/ \E c \in calls : StackOverflow(c)
    \/ \E c \in calls : FrontierCheck(c)
    \/ \E c \in calls : Expand(c)
    \/ \E c \in calls : Join(c)
    \/ \E c \in calls : Lock(c)
    \/ \E c \in calls : Load(c)
    \/ \E c \in calls : Store(c)
    \/ \E c \in calls : StdoutLock(c)
    \/ \E c \in calls : Write(c)
    \/ \E c \in calls : Return(c)

Spec == Init /\ [][Next]_vars

\* The program is run a second time on the same pattern, by the same build:
\* main starts again from its first line, the first run's output kept aside.
Rerun ==
    /\ phase = "done"
    /\ previous = None
    /\ previous' = Some(stdout)
    /\ phase' = "main"
    /\ steno_constraints' = <<>>
    /\ calls' = {}
    /\ results' = None
    /\ stdout_lock' = None
    /\ stdout' = <<>>
    /\ stderr' = <<>>
    /\ hits' = {}
    /\ movegens' = 0
    /\ started' = 0
    /\ UNCHANGED <<steno, start, overflow_checks>>

NextTwice == Next \/ Rerun

TwiceSpec == Init /\ [][NextTwice]_vars

\* Every thread that can take a step eventually takes one: main's thread and
\* rayon's workers run until their work is done.
FairSpec == Spec /\ WF_vars(Next)

----------------------------------------------------------------------------
(* What the claims speak of *)

\* enumerate_positions, started at depth 0 on the start position, has returned.
SearchReturned == phase \in {"joined", "locked", "done"}

\* The paths of the matches written to the output, in the order written.
UrlPaths == SelectSeq(stdout, LAMBDA line : line.kind = "url")

\* The counts solve has printed.
CountLines == SelectSeq(stdout, LAMBDA line : line.kind = "count")

\* The calls that hold the accumulator's mutex, and those that hold stdout's lock.
MutexHolders == {c \in calls : results # None /\ Mutex.holder = Some(CallHolder(c))}

StdoutHolders == {c \in calls : stdout_lock = Some(CallHolder(c))}

RECURSIVE PathsFrom(_, _)
\* The legal move sequences of n plies from a position (built by halves).
PathsFrom(position, n) ==
    IF n = 0 THEN {<<>>}
    ELSE IF n = 1 THEN {<<mov>> : mov \in LegalMoves(position)}
    ELSE LET half == n \div 2
         IN  UNION {{a \o b : b \in PathsFrom(Play(position, a, 1, half), n - half)} :
                    a \in PathsFrom(position, half)}

\* Ply i of a move sequence satisfies a token: the move, the position after it,
\* the piece moved and the piece that stood on the destination before it.
PlySatisfies(token, path, i) ==
    LET before == Play(start, path, 1, i - 1)
        mov == path[i]
    IN  MatchConstraint(token, MakeMove(before, mov), mov, PieceOn(before, mov.source),
                        PieceOn(before, mov.dest))

\* The call c can take its next step: it is not waiting for a lock that is held
\* nor for a closure of its for_each.
CanStep(c) ==
    CASE c.pc = "lock" -> CanLock(Mutex)
      [] c.pc = "stdout" -> stdout_lock = None
      [] c.pc = "join" -> JoinReady(c)
      [] OTHER -> TRUE

\* main, solve or a call can take a step.
CanProgress ==
    \/ phase \in {"main", "solve", "joined"}
    \/ phase = "locked" /\ stdout_lock = None
    \/ phase = "search" /\ \E c \in calls : CanStep(c)

\* The legal move sequences from the start position that satisfy a pattern ply by ply.
Matching(pattern) ==
    {path \in PathsFrom(start, Len(pattern)) :
        \A i \in 1..Len(pattern) : PlySatisfies(pattern[i], path, i)}

----------------------------------------------------------------------------
(* C1 *)

\* C1: once enumerate_positions, started at depth 0 on the start position, has
\* returned, the matches recorded are exactly the legal move sequences that
\* satisfy the pattern ply by ply: the counter is their number, each is written
\* exactly once, and nothing else is written.
C1_ExactMatches ==
    SearchReturned =>
        LET expected == Matching(steno_constraints)
        IN  /\ Mutex.value = Cardinality(expected)
            /\ Len(UrlPaths) = Cardinality(expected)
            /\ \A path \in expected : \E i \in 1..Len(UrlPaths) : UrlPaths[i].path = path
            /\ \A i \in 1..Len(UrlPaths) : UrlPaths[i].path \in expected

----------------------------------------------------------------------------
(* C2 *)

\* A call between its lock() of line 115 and its return of line 133.
InCriticalSection(c) == c.pc \in {"load", "store", "stdout", "write", "return"}

\* The increments that have been written to the counter.
IncrementsDone == Cardinality(hits) - Cardinality({c \in calls : c.pc \in {"lock", "load", "store"}})

\* C2: the accumulator is read and written only by the holder of its mutex, at
\* most one call holds the mutex at a time, and no increment is lost: the counter
\* always holds the number of increments made, and the count solve prints is
\* the number of calls that passed the frontier check.
C2_MutexAndCount ==
    /\ \A c \in calls : InCriticalSection(c) => c \in MutexHolders
    /\ Cardinality({c \in calls : InCriticalSection(c)}) <= 1
    /\ phase = "locked" => Mutex.holder = Some(SolveHolder) /\ calls = {}
    /\ results # None => Mutex.value = IncrementsDone
    /\ phase = "done" =>
          /\ Len(CountLines) = 1
          /\ CountLines[1].count = Cardinality(hits)

\* Two calls contend for the mutex, one inside its increment, after an earlier
\* increment was made.
C2_Witness ==
    /\ results # None
    /\ Mutex.value >= 1
    /\ \E c, d \in calls : c.pc = "store" /\ d.pc = "lock"

----------------------------------------------------------------------------
(* C3 *)

\* The set of the lines of an output.
LineSet(lines) == {lines[i] : i \in 1..Len(lines)}

\* C3: when the program has run twice on the same pattern, the second run's
\* output holds the same count and the same matching sequences as the first
\* run's, each as often; only the order of the lines may differ.
C3_SameResultTwice ==
    (previous # None /\ phase = "done") =>
        LET first == Unwrap(previous)
        IN  /\ Len(stdout) = Len(first)
            /\ LineSet(stdout) = LineSet(first)
            /\ SelectSeq(first, LAMBDA line : line.kind = "count") = CountLines

\* The second run has ended and wrote its three or more matches in another
\* order than the first run.
C3_Witness ==
    /\ previous # None
    /\ phase = "done"
    /\ Len(UrlPaths) >= 3
    /\ stdout # Unwrap(previous)

----------------------------------------------------------------------------
(* C4 *)

\* The pattern string holds a character outside the alphabet.
HasInvalidChar == \E i \in 1..Len(steno) : ~Contains(valid_chars, steno[i])

\* C4: for a pattern string with a character outside the alphabet no search is
\* attempted: solve and enumerate_positions are never entered, no legal moves
\* are generated, and the accumulator is never created, locked or modified.
C4_InvalidNeverSearched ==
    HasInvalidChar =>
        /\ phase \in {"main", "rejected"}
        /\ steno_constraints = <<>>
        /\ calls = {}
        /\ started = 0
        /\ movegens = 0
        /\ results = None
        /\ stdout_lock = None
        /\ stdout = <<>>

\* A string whose second character is the offending one has been rejected.
C4_Witness ==
    /\ Len(steno) = 2
    /\ Contains(valid_chars, steno[1])
    /\ ~Contains(valid_chars, steno[2])
    /\ phase = "rejected"
    /\ stderr = <<InvalidCharacter(steno[2])>>

----------------------------------------------------------------------------
(* C5 *)

\* C5: for the pattern of length 0 the root is recorded at the frontier check,
\* no legal moves are generated and no child call is made, and the engine
\* reports exactly one match, the empty move sequence.
C5_EmptyPattern ==
    Len(steno) = 0 =>
        /\ movegens = 0
        /\ started <= 1
        /\ \A c \in calls : c.path = <<>> /\ c.pc \notin {"expand", "join"}
        /\ hits \subseteq {<<>>}
        /\ phase = "done" => stdout = <<UrlLine(<<>>), CountLine(1)>>

\* The search on the empty pattern has ended.
C5_Witness == Len(steno) = 0 /\ phase = "done" /\ hits = {<<>>}

----------------------------------------------------------------------------
(* C6 *)

\* The pattern is made of wildcards only.
AllWildcards == \A i \in 1..Len(steno) : steno[i] = "~"

----------------------------------------------------------------------------
(* C7 *)

\* C7: for every valid pattern string, of any length, no call is deeper than the
\* pattern is long, and the search terminates: while solve has not reported the
\* count (or main the invalid character), some step can be taken.
C7_BoundedAndTerminates ==
    /\ \A c \in calls : c.depth <= Len(steno_constraints)
    /\ phase \in {"rejected", "done"} \/ CanProgress

----------------------------------------------------------------------------
(* C8 *)

----------------------------------------------------------------------------
(* C9 *)

\* C9: every call that has not returned has its parent waiting in for_each, so
\* a call returns only after the calls it made; solve reads the accumulator
\* only once no call is left, prints one count, and the counter keeps the value
\* printed.
C9_ForkJoin ==
    /\ \A d \in calls : d.path # <<>> => \E p \in calls : IsChildOf(d, p) /\ p.pc = "join"
    /\ SearchReturned => calls = {}
    /\ phase \in {"main", "solve", "search", "joined", "locked"} => CountLines = <<>>
    /\ phase = "done" => CountLines = <<CountLine(Mutex.value)>>

\* solve holds the accumulator after a search two plies deep that counted
\* two or more matches.
C9_Witness ==
    /\ phase = "locked"
    /\ Len(steno) = 2
    /\ Mutex.value >= 2

----------------------------------------------------------------------------
(* C10 *)

\* While the search runs, some call is not blocked.
NoDeadlock == phase = "search" => \E c \in calls : CanStep(c)

----------------------------------------------------------------------------
(* C11 *)

\* The index of the leftmost character of s outside the alphabet.
FirstInvalid(s) ==
    CHOOSE i \in 1..Len(s) :
        /\ ~Contains(valid_chars, s[i])
        /\ \A j \in 1..(i - 1) : Contains(valid_chars, s[j])



\* C11: once main has compiled the pattern string, compilation has failed if
\* and only if the string holds a character outside the 34-character alphabet,
\* and the one error reported names the leftmost such character; a string
\* without such a character reports no error.
C11_FailsAtFirstInvalid ==
    /\ Len(valid_chars) = 34
    /\ phase # "main" => (phase = "rejected" <=> HasInvalidChar)
    /\ phase = "rejected" =>
          stderr = << <<"Invalid character in steno string: ", steno[FirstInvalid(steno)]>> >>
    /\ phase # "rejected" => stderr = <<>>

\* A string of two different characters outside the alphabet has been rejected
\* with the first of them.
C11_Witness ==
    /\ steno = <<"9", "z">>
    /\ phase = "rejected"
    /\ stderr = <<InvalidCharacter("9")>>

----------------------------------------------------------------------------
(* C12 *)

\* C12: a compiled pattern has as many tokens as the string has characters, the
\* token at each index being the character at that index; and the token looked
\* up for a call with a move played into it is the one at the index of its ply
\* (token i, counted from 0, constrains ply i + 1).
C12_OneTokenPerChar ==
    /\ phase \notin {"main", "rejected"} =>
          /\ Len(steno_constraints) = Len(steno)
          /\ \A i \in 1..Len(steno) : steno_constraints[i] = steno[i]
    /\ \A c \in calls : c.path # <<>> => ConstraintIndex(c.depth) + 1 = Len(c.path)

----------------------------------------------------------------------------
(* C13 *)

\* The token line 33 looks up for the call c.
TokenOf(c) == steno_constraints[ConstraintIndex(c.depth) + 1]

\* The move played into c satisfies the token looked up for c (the root, with
\* no move, passes).
PassesToken(c) ==
    \/ c.path = <<>>
    \/ /\ ConstraintIndex(c.depth) < Len(steno_constraints)
       /\ MatchConstraint(TokenOf(c), c.board, Unwrap(c.last_move), c.last_piece_moved,
                          c.piece_on_dest)

\* No call of calls2 is at the path of c or below it.
NothingAtOrBelow(c, calls2) ==
    \A d \in calls2 :
        Len(d.path) < Len(c.path) \/ SubSeq(d.path, 1, Len(c.path)) # c.path

\* C13: a call with a move played into it whose gate fails ends in that step,
\* leaving the accumulator, the output, the count of move generations and the
\* set of calls below it as they were; and every call past its gate passed its
\* token, as did its parent, which waits in for_each: every proper prefix of a
\* visited path passed its token.
C13_Pruning ==
    [][/\ \A c \in calls : c.pc # "call" => PassesToken(c)
       /\ \A d \in calls : d.path # <<>> =>
             \E p \in calls : IsChildOf(d, p) /\ p.pc = "join" /\ PassesToken(p)
       /\ \A c \in calls :
             (c.pc = "call" /\ c.path # <<>> /\ ~PassesToken(c) /\ c \notin calls') =>
                /\ NothingAtOrBelow(c, calls')
                /\ results' = results
                /\ hits' = hits
                /\ movegens' = movegens
                /\ stdout' = stdout
                /\ stdout_lock' = stdout_lock]_vars

\* The search of "K~" over Stub has ended: of the three first moves only
\* castling passed 'K', and only its node generated moves besides the root.
C13_Witness ==
    /\ steno = <<"K", "~">>
    /\ start = StubStart
    /\ phase = "done"
    /\ started = 5
    /\ movegens = 2
    /\ Cardinality(hits) = 1

----------------------------------------------------------------------------
(* C14 *)

\* C14: the gate is skipped at the root and only there (a call has no move
\* exactly when its path is empty), and for every call with a move played into
\* it 1 <= depth <= pattern length, the index depth - 1 is inside the pattern,
\* the moved piece is present where a piece-kind or castling token is
\* evaluated, and check_steno_constraints does not panic.
C14_GateOnlyAfterMove ==
    \A c \in calls :
        /\ c.last_move = None <=> c.path = <<>>
        /\ c.path # <<>> =>
              /\ 1 <= c.depth
              /\ c.depth <= Len(steno_constraints)
              /\ ConstraintIndex(c.depth) < Len(steno_constraints)
              /\ UnwrapsPiece(TokenOf(c)) => c.last_piece_moved # None
              /\ ~CheckPanics(c.board, c.last_move, c.last_piece_moved, c.piece_on_dest,
                              c.depth, steno_constraints)

----------------------------------------------------------------------------
(* C15 *)

\* The call c has a move played into it and line 33 looks up the token t for it.
HasToken(c, t) ==
    /\ c.path # <<>>
    /\ ConstraintIndex(c.depth) < Len(steno_constraints)
    /\ TokenOf(c) = t

\* The position the last move of c's path was played in, from the start
\* position on, and that move.
PositionBefore(c) == Play(start, c.path, 1, Len(c.path) - 1)

LastMoveOf(c) == c.path[Len(c.path)]

\* The destination of c's move was occupied before the move.
DestOccupied(c) == LastMoveOf(c).dest \in DOMAIN Boards[PositionBefore(c)].pieces

\* c's move is a pawn's, from one file to another.
PawnChangesFile(c) ==
    /\ Boards[PositionBefore(c)].pieces[LastMoveOf(c).source] = "Pawn"
    /\ LastMoveOf(c).source % 8 # LastMoveOf(c).dest % 8

\* The call c goes past its gate in this step.
PassesGateNow(c) == [c EXCEPT !.pc = "frontier"] \in calls'

\* C15: a call whose token is 'x' goes past its gate if and only if the
\* destination of its move was occupied before the move, or the move is a
\* pawn's from one file to another onto an empty square; and the pattern "x"
\* over the game that opens with e2e4 ends with no match.
C15_CaptureToken ==
    [][/\ \A c \in calls : HasToken(c, "x") =>
             /\ c.pc # "call" => (DestOccupied(c) \/ (PawnChangesFile(c) /\ ~DestOccupied(c)))
             /\ (c.pc = "call" /\ c \notin calls') =>
                   (PassesGateNow(c) <=> (DestOccupied(c) \/ (PawnChangesFile(c) /\ ~DestOccupied(c))))
       /\ (steno = <<"x">> /\ start = ShuffleStart /\ phase' = "done") =>
             stdout' = <<CountLine(0)>>]_vars

\* The search of "x" over Stub has ended with the two captures of the first
\* ply, the en-passant capture and the capture that promotes.
C15_Witness ==
    /\ steno = <<"x">>
    /\ start = StubStart
    /\ phase = "done"
    /\ hits = {<<Mv(36, 43, None)>>, <<Mv(49, 56, Some("Queen"))>>}
    /\ CountLines = <<CountLine(2)>>

----------------------------------------------------------------------------
(* C16 *)

\* C16: a call whose token is '%' goes past its gate if and only if its move is
\* a pawn's from one file to another onto a square that was empty before the
\* move; such a ply satisfies 'x' as well, and no ply onto an occupied square
\* goes past '%'.
C16_EnPassantToken ==
    [][\A c \in calls : HasToken(c, "%") =>
          /\ c.pc # "call" =>
                /\ PawnChangesFile(c)
                /\ ~DestOccupied(c)
                /\ MatchConstraint("x", c.board, Unwrap(c.last_move), c.last_piece_moved,
                                   c.piece_on_dest)
          /\ (c.pc = "call" /\ c \notin calls') =>
                /\ PassesGateNow(c) <=> (PawnChangesFile(c) /\ ~DestOccupied(c))
                /\ DestOccupied(c) => ~PassesGateNow(c)]_vars

\* The search of "%" over Stub has ended: of the two pawn captures of the first
\* ply only the en-passant capture matched.
C16_Witness ==
    /\ steno = <<"%">>
    /\ start = StubStart
    /\ phase = "done"
    /\ hits = {<<Mv(36, 43, None)>>}
    /\ started = 4

----------------------------------------------------------------------------
(* C17 *)

\* C17: every character of the compiler's alphabet selects an arm of its own in
\* check_steno_constraints, so no token of a compiled pattern, and no token
\* looked up for a call, selects the default arm.
C17_ClosedAlphabet ==
    /\ \A i \in 1..Len(valid_chars) : MatchArm(valid_chars[i]) # "default"
    /\ \A i \in 1..Len(steno_constraints) : MatchArm(steno_constraints[i]) # "default"
    /\ \A c \in calls :
          (c.path # <<>> /\ ConstraintIndex(c.depth) < Len(steno_constraints)) =>
              MatchArm(TokenOf(c)) # "default"

\* The search of "od" over Stub has ended with its one match, castling short
\* followed by the pawn's move to the d file.
C17_Witness ==
    /\ steno = <<"o", "d">>
    /\ start = StubStart
    /\ phase = "done"
    /\ hits = {<<Mv(4, 6, None), Mv(35, 27, None)>>}

----------------------------------------------------------------------------
(* C18 *)

\* The call c is above the frontier and its position has no legal move.
DeadEnd(c) == c.depth < Len(steno_constraints) /\ LegalMoves(c.board) = {}

\* C18: a call above the frontier whose position has no legal move makes no
\* child call when it expands, and then returns normally: its parent's for_each
\* is told of one closure finished without a panic, while the accumulator, the
\* output and every other call stay as they were and the search goes on.
C18_NoMovesEarly ==
    [][\A c \in calls : (DeadEnd(c) /\ c \notin calls') =>
          /\ c.pc = "expand" =>
                /\ calls' = (calls \ {c}) \cup {[c EXCEPT !.pc = "join"]}
                /\ results' = results
                /\ hits' = hits
                /\ stdout' = stdout
                /\ phase' = phase
          /\ c.pc = "join" =>
                /\ c.pending = 0
                /\ \E p \in calls :
                      /\ IsChildOf(c, p)
                      /\ calls' = (calls \ {c, p}) \cup {[p EXCEPT !.pending = @ - 1]}
                /\ results' = results
                /\ hits' = hits
                /\ stdout' = stdout
                /\ phase' = phase]_vars

\* A call whose move gave mate one ply above the frontier waits to return with
\* no child, while a sibling has yet to run.
C18_Witness ==
    \E c, d \in calls :
        /\ DeadEnd(c)
        /\ c.path # <<>>
        /\ c.pc = "join"
        /\ BoardStatus(c.board) = "Checkmate"
        /\ d.pc = "call"
        /\ Len(d.path) = Len(c.path)

----------------------------------------------------------------------------
(* C19 *)

\* The piece of a position on a square, as an Option.
PieceAt(position, sq) ==
    IF sq \in DOMAIN Boards[position].pieces THEN {Boards[position].pieces[sq]} ELSE {}

\* The call d carries what the fan-out of p hands to the child of d's last
\* move: the position after the move, p's path followed by the move, the move,
\* and the pieces on the move's source and destination in p's position.
DerivedFrom(d, p) ==
    LET mov == d.path[Len(d.path)]
    IN  /\ mov \in DOMAIN Boards[p.board].next
        /\ d.board = Boards[p.board].next[mov]
        /\ d.path = p.path \o <<mov>>
        /\ d.last_move = {mov}
        /\ d.last_piece_moved = PieceAt(p.board, mov.source)
        /\ d.piece_on_dest = PieceAt(p.board, mov.dest)

\* The call c2 is the call c with its position and arguments as they were.
SameNode(c2, c) ==
    /\ c2.path = c.path
    /\ c2.board = c.board
    /\ c2.last_move = c.last_move
    /\ c2.last_piece_moved = c.last_piece_moved
    /\ c2.piece_on_dest = c.piece_on_dest

\* C19: in every state, whatever its siblings have done, a call with a move
\* played into it carries the position, path and pieces derived from its
\* parent's position and its move, and the root those of solve's call; and a
\* call that expands and goes on keeps its own position and path and gets
\* exactly one child for each legal move.
C19_FanOut ==
    [][/\ \A d \in calls :
             IF d.path = <<>>
             THEN d.board = start /\ d.last_move = {} /\ d.last_piece_moved = {}
                  /\ d.piece_on_dest = {}
             ELSE \E p \in calls : IsChildOf(d, p) /\ DerivedFrom(d, p)
       /\ \A c \in calls :
             (c.pc = "expand" /\ c \notin calls' /\ \E c2 \in calls' : c2.path = c.path) =>
                /\ \E c2 \in calls' : c2.pc = "join" /\ SameNode(c2, c)
                /\ {d.path : d \in {e \in calls' : IsChildOf(e, c)}}
                      = {c.path \o <<mov>> : mov \in DOMAIN Boards[c.board].next}
                /\ \A d \in calls' : IsChildOf(d, c) =>
                      /\ d.pc = "call"
                      /\ \A e \in calls' : e.path = d.path => e = d]_vars

\* In Stub, the call for the king's capture on d6 carries the pawn that stood
\* there while its sibling, the king's move to e6, is already past its gate.
C19_Witness ==
    \E d, e \in calls :
        /\ d.path = <<Mv(36, 43, None), Mv(52, 43, None)>>
        /\ d.pc = "call"
        /\ d.last_piece_moved = {"King"}
        /\ d.piece_on_dest = {"Pawn"}
        /\ e.path = <<Mv(36, 43, None), Mv(52, 44, None)>>
        /\ e.pc # "call"

----------------------------------------------------------------------------
(* C20 *)

\* C20: for every call, the depth argument is the length of its path, and every
\* path recorded at the frontier is as long as the pattern.
C20_DepthIsPathLength ==
    /\ \A c \in calls : c.depth = Len(c.path)
    /\ \A path \in hits : Len(path) = Len(steno_constraints)

====
